---- MODULE Spec2Model ----
(***************************************************************************)
(* Model of medo.py: the shutdown coordinator (signal_handler,             *)
(* cleanup_all, atexit), the browser session provider (BrowserManager),    *)
(* the per-account workflow (AutomationEngine.run), the retry wrapper      *)
(* (_run_with_retry) and the orchestrator (AutomationOrchestrator.run).    *)
(*                                                                         *)
(* Threads: the main thread (thread 0) runs the orchestrator and, in       *)
(* sequential mode, the workflows themselves; pool threads 1..workers run  *)
(* the workflows in parallel mode.  A signal handler runs on the main      *)
(* thread, on top of whatever the main thread was doing (a stack of        *)
(* frames); signal_handler never returns (os._exit), so the frame below a  *)
(* handler never resumes.  Pool threads keep running while a handler runs. *)
(***************************************************************************)
EXTENDS Naturals, Integers, Sequences, FiniteSets, TLC

\* ---------------------------------------------------------------- bounds
MaxTotal == 2
MaxWorkers == 2
MaxRetries == 2
MaxSignals == 2
MaxPolls == 2
MaxAgents == 2
MaxLength == 2
MaxCalls == 2

\* ---------------------------------------------------------------- values
None == "<None>"
ShutdownError == "Shutdown requested"
EmailError == "Could not retrieve email address"
FieldError == "Email field not found"
TimeoutError == "Verification email not received within 45s"
LinkError == "Could not find or navigate to verification link"
LoginFieldError == "Login email field not found"
\* str(e) of an exception raised by the browser driver (selenium's
\* WebDriverException renders as "Message: ...")
DriverError == "Message: driver call failed"

\* lines 141-147: the pool of user agents (each entry named by its platform
\* and browser version)
USER_AGENTS ==
    <<"Windows NT 10.0 Chrome/120", "Macintosh Chrome/120",
      "X11 Linux Chrome/120", "Windows NT 10.0 Chrome/119",
      "Macintosh Chrome/119">>

\* lines 393-397 and 135-137: the identity of an engine's browser; only the
\* user agent varies
BrowserConfig(ua) ==
    [user_agent |-> ua, window_size |-> <<1920, 1080>>,
     languages |-> <<"en-US", "en">>]
NoIdentity == BrowserConfig(None)

\* Python truthiness of an Optional[str]
Truthy(s) == s \notin {None, ""}

\* the address the inbox provider assigns to the session of account idx
InboxAddresses == <<"u1@tm.io", "u2@tm.io", "u3@tm.io", "u4@tm.io">>
\* "@" in s
HasAt(s) == \E k \in DOMAIN InboxAddresses : InboxAddresses[k] = s
\* what a read of the inbox page can yield for account idx: nothing (the
\* read raised or matched nothing), an empty value, a value without "@",
\* the assigned address
PageValues(idx) == {None, "", "loading", InboxAddresses[idx]}

\* string.ascii_letters, string.digits and the symbols of line 247, one
\* character per entry
ascii_letters ==
    <<"a", "b", "c", "d", "e", "f", "g", "h", "i", "j", "k", "l", "m",
      "n", "o", "p", "q", "r", "s", "t", "u", "v", "w", "x", "y", "z",
      "A", "B", "C", "D", "E", "F", "G", "H", "I", "J", "K", "L", "M",
      "N", "O", "P", "Q", "R", "S", "T", "U", "V", "W", "X", "Y", "Z">>
digits == <<"0", "1", "2", "3", "4", "5", "6", "7", "8", "9">>
special_chars == <<"!", "@", "#", "$", "%", "^", "&", "*">>

\* generate_password adding the symbols whatever the option says
generate_password_chars_always(use_special_chars) ==
    ascii_letters \o digits \o special_chars
\* lines 245-247: the characters generate_password draws from
generate_password_chars(use_special_chars) ==
    ascii_letters \o digits \o
      (IF use_special_chars THEN special_chars ELSE <<>>)

\* line 243: the default length
DefaultLength == 12
\* line 826: a password generate_password() can return for the defaults
generate_password == "aB3$eF6&hJ9k"

AccountResult(success, email, password, error, idx) ==
    [success |-> success, email |-> email, password |-> password,
     error |-> error, account_index |-> idx]
NoResult == AccountResult(FALSE, None, None, None, 0)
\* a shutdown result without the shutdown error
ShutdownResult_untagged(idx) == AccountResult(FALSE, None, None, "Cancelled", idx)
\* lines 1028-1033 and 1051-1056: the synthetic result of a shutdown check
ShutdownResult(idx) == AccountResult(FALSE, None, None, ShutdownError, idx)

Accounts == 1..MaxTotal
Threads == 0..MaxWorkers
\* one browser per (account, attempt): every attempt builds a new engine and
\* a new BrowserManager (lines 1035-1043, 399)
Drivers == Accounts \X (0..(MaxRetries + 2))

VARIABLES
    total, workers, max_retries,       \* run configuration
    agents,         \* how many entries of USER_AGENTS random.choice may yield
    call,           \* the activation of a function examined on its own
    no_multi,       \* args.no_multi, the --no-multi flag
    shutdown_requested, cleanup_done,  \* module globals, lines 35-36
    active_drivers,                    \* module global, line 34
    quits,          \* per browser: -1 not started, else number of quit() calls
    stack,          \* main thread: base frame + one frame per running handler
    signals,        \* number of signals the environment may still deliver
    liveAtSignal,   \* the sessions registered when a signal was delivered
    passes,         \* number of close passes of cleanup_all begun so far
    halted, exit_code,
    i, results, store, cur, summary,   \* orchestrator locals, run's report
    nextTask, returned, yielded,       \* thread pool: queue, futures
    run,            \* per thread: the _run_with_retry / engine.run activation
    acct,           \* per account: history of the retry wrapper's calls
    writing         \* per thread: the console write the thread is inside

vars == <<total, workers, max_retries, agents, call, no_multi,
          shutdown_requested, cleanup_done,
          active_drivers, quits, stack, signals, liveAtSignal, passes, halted,
          exit_code, i, results, store, cur, summary, nextTask, returned,
          yielded, run, acct, writing>>

config == <<total, workers, max_retries, agents, call, no_multi, writing>>
program == <<total, workers, max_retries, agents, no_multi,
             shutdown_requested,
             cleanup_done, active_drivers, quits, stack, signals,
             liveAtSignal, passes, halted, exit_code, i, results, store, cur,
             summary, nextTask, returned, yielded, run, acct, writing>>
orch == <<i, results, store, cur, summary, nextTask, returned, yielded>>
sig == <<signals, liveAtSignal>>
env == <<signals, liveAtSignal, passes>>

Frame(pc, after, code) == [pc |-> pc, todo |-> <<>>, after |-> after, code |-> code]
Top == stack[Len(stack)]
InBase == Len(stack) = 1
SetTop(f) == stack' = [stack EXCEPT ![Len(stack)] = f]

IdleRun == [pc |-> "idle", idx |-> 0, attempt |-> 0, email |-> None,
            password |-> None, driver |-> FALSE, polls |-> 0,
            seen |-> FALSE, result |-> NoResult]

NoHistory == [invocations |-> 0, engineRuns |-> 0, succSeen |-> FALSE,
              invAfterSucc |-> FALSE, abortSeen |-> FALSE,
              runAfterAbort |-> FALSE, flagAt |-> -1, emailSeen |-> FALSE,
              identity |-> NoIdentity,
              last |-> NoResult]

NoSummary == [total |-> -1, successful |-> 0, failed |-> 0, accounts |-> <<>>]

Config(t, w, r, s) == [total |-> t, workers |-> w, max_retries |-> r, signals |-> s]

NoCall == [fn |-> "none"]

\* the state after module import (lines 34-36, 67-82) and the construction
\* of the orchestrator (lines 977-999), for one of the configurations cs
InitProgram(cs) ==
    /\ \E c \in cs :
         /\ total = c.total
         /\ workers = c.workers
         /\ max_retries = c.max_retries
         /\ signals = c.signals
         /\ agents = IF "agents" \in DOMAIN c THEN c.agents ELSE 1
         /\ no_multi = IF "no_multi" \in DOMAIN c THEN c.no_multi ELSE FALSE
    /\ shutdown_requested = FALSE
    /\ cleanup_done = FALSE
    /\ active_drivers = <<>>
    /\ quits = [d \in Drivers |-> -1]
    /\ stack = <<Frame("prompt", "none", 0)>>
    /\ liveAtSignal = {}
    /\ passes = 0
    /\ halted = FALSE
    /\ exit_code = -1
    /\ i = 0
    /\ results = <<>>
    /\ store = <<>>
    /\ cur = NoResult
    /\ summary = NoSummary
    /\ nextTask = 0
    /\ returned = [a \in Accounts |-> NoResult]
    /\ yielded = {}
    /\ run = [t \in Threads |-> IdleRun]
    /\ acct = [a \in Accounts |-> NoHistory]
    /\ writing = [t \in Threads |-> "none"]

InitWith(cs) == InitProgram(cs) /\ call = NoCall

\* whole runs of up to MaxTotal accounts without retries; a signal may
\* arrive except where two pool threads work on two accounts
OrchConfigs ==
    {Config(t, w, 0, IF w = 1 \/ t <= 1 THEN 1 ELSE 0) :
       t \in 0..MaxTotal, w \in 1..MaxWorkers}

\* one account with every retry budget up to MaxRetries, and one signal
RetryConfigs ==
    {Config(1, w, r, 1) : w \in 1..MaxWorkers, r \in 0..MaxRetries}

\* one account, with or without one retry, under up to MaxSignals signals
ShutdownConfigs ==
    {Config(1, w, r, MaxSignals) : w \in 1..MaxWorkers, r \in 0..1}

\* two accounts, sequentially under one signal or on two pool threads, with
\* up to MaxAgents entries of the user agent pool in play
IdentityConfigs ==
    {[agents |-> IF MaxAgents < Len(USER_AGENTS) THEN MaxAgents
                 ELSE Len(USER_AGENTS)] @@ c :
       c \in {Config(2, 1, 0, 1), Config(2, 2, 0, 0)}}

\* line 128: AutomationConfig.default_workers
default_workers == 3

\* lines 1096-1107: the worker count from args.workers (0: not given) and the
\* answer to the multi-threading prompt; args.no_multi is not consulted
select_workers(args_workers, args_no_multi, answer) ==
    IF args_workers = 0
    THEN IF answer = "n" THEN 1 ELSE default_workers
    ELSE args_workers

\* two accounts under every combination of the -w option, the --no-multi
\* flag and the prompt's answer that selects at most MaxWorkers workers
ModeConfigs ==
    LET Inputs == (0..MaxWorkers) \X BOOLEAN \X {"", "n"}
        w(x) == select_workers(x[1], x[2], x[3])
    IN {[no_multi |-> x[2]] @@ Config(2, w(x), 0, IF w(x) = 1 THEN 1 ELSE 0) :
          x \in {y \in Inputs : w(y) <= MaxWorkers}}

Init == InitWith(OrchConfigs)
InitRetry == InitWith(RetryConfigs)
InitShutdown == InitWith(ShutdownConfigs)
InitIdentity == InitWith(IdentityConfigs)
\* one account in the sequential loop with a retry and a signal, and two
\* accounts on two pool threads
LogConfigs == {Config(1, 1, 1, 1), Config(2, 2, 0, 0)}

InitLog == InitWith(LogConfigs)

\* one account with or without a retry, in either mode, and one signal
LiveConfigs == {Config(1, w, r, 1) : w \in 1..MaxWorkers, r \in 0..1}

InitLive == InitWith(LiveConfigs)

InitMode == InitWith(ModeConfigs)

\* ------------------------------------------------- shutdown coordinator

\* the process ends (os._exit, or the end of interpreter shutdown): every
\* thread and every frame of the main thread is gone
Halt(code) ==
    /\ halted' = TRUE
    /\ exit_code' = code
    /\ stack' = <<Frame("exited", Top.after, code)>>
    /\ run' = [t \in Threads |-> [IdleRun EXCEPT !.pc = "dead"]]

\* cleanup_all returns to its caller: signal_handler goes on to os._exit(1)
\* (line 64), an orchestrator abort path goes on to sys.exit(1) (which runs
\* the atexit hook, cleanup_all again, line 82), the atexit hook ends the
\* process.
ReturnFrom(f) ==
    IF f.after = "os_exit"
    THEN Halt(1)
    ELSE IF f.after = "sys_exit"
    THEN /\ SetTop(Frame("cu_guard", "halt", 1))
         /\ UNCHANGED <<halted, exit_code, run>>
    ELSE Halt(f.code)

\* cleanup_all without the guard of lines 43-44
CleanupGuard_never == FALSE
\* line 43: if _cleanup_done
CleanupGuard == cleanup_done

\* lines 43-44: the guard; a call that finds the flag set returns at once
cleanup_all_guard ==
    /\ ~halted
    /\ Top.pc = "cu_guard"
    /\ IF CleanupGuard
       THEN ReturnFrom(Top)
       ELSE /\ SetTop([Top EXCEPT !.pc = "cu_flag"])
            /\ UNCHANGED <<halted, exit_code, run>>
    /\ UNCHANGED <<config, shutdown_requested, cleanup_done, active_drivers,
                   quits, env, orch, acct>>

\* lines 45-47: the flag is set and the close pass begins on a copy of the
\* registry
cleanup_all_flag ==
    /\ ~halted
    /\ Top.pc = "cu_flag"
    /\ cleanup_done' = TRUE
    /\ passes' = passes + 1
    /\ SetTop([Top EXCEPT !.pc = "cu_pass", !.todo = active_drivers])
    /\ UNCHANGED <<config, shutdown_requested, active_drivers, quits, sig,
                   halted, exit_code, orch, run, acct>>

\* lines 47-51: driver.quit() on the next driver of the copy
cleanup_all_quit ==
    /\ ~halted
    /\ Top.pc = "cu_pass"
    /\ Top.todo # <<>>
    /\ quits' = [quits EXCEPT ![Head(Top.todo)] = @ + 1]
    /\ SetTop([Top EXCEPT !.todo = Tail(@)])
    /\ UNCHANGED <<config, shutdown_requested, cleanup_done, active_drivers,
                   env, halted, exit_code, orch, run, acct>>

\* cleanup_all re-arming the shutdown flag once the registry is empty
cleanup_all_clear_reset ==
    /\ ~halted
    /\ Top.pc = "cu_pass"
    /\ Top.todo = <<>>
    /\ active_drivers' = <<>>
    /\ shutdown_requested' = FALSE
    /\ ReturnFrom(Top)
    /\ UNCHANGED <<config, cleanup_done, quits, env, orch, acct>>
\* line 52, and the return to the caller
cleanup_all_clear ==
    /\ ~halted
    /\ Top.pc = "cu_pass"
    /\ Top.todo = <<>>
    /\ active_drivers' = <<>>
    /\ ReturnFrom(Top)
    /\ UNCHANGED <<config, shutdown_requested, cleanup_done, quits, env,
                   orch, acct>>

\* lines 55-62: a signal is delivered to the main thread; the handler sets
\* the flag and calls cleanup_all
signal_handler ==
    /\ ~halted
    /\ signals > 0
    /\ signals' = signals - 1
    /\ liveAtSignal' = liveAtSignal \cup {active_drivers[k] : k \in DOMAIN active_drivers}
    /\ shutdown_requested' = TRUE
    /\ stack' = Append(stack, Frame("cu_guard", "os_exit", 1))
    /\ UNCHANGED <<config, cleanup_done, active_drivers, quits, passes, halted,
                   exit_code, orch, run, acct>>

\* ---------------------------------------------------- account manager

\* line 920: the line written for one account
StoreLine(email, password) == email \o ":" \o password

\* lines 916-925: append the line; an I/O failure is caught and reported by
\* the return value only
save_account(email, password, io_ok) ==
    IF io_ok THEN Append(store, StoreLine(email, password)) ELSE store

\* ---------------------------------------------------------- orchestrator

StartTask(idx) == [IdleRun EXCEPT !.pc = "retry_check", !.idx = idx]

Successful(rs) == {k \in DOMAIN rs : rs[k].success}
Failed(rs) == {k \in DOMAIN rs : ~rs[k].success}

\* lines 1077-1107 and 1156/1166-1170: the prompts (EOF aborts through
\* cleanup_all and sys.exit(1)), then the choice of the execution mode; in
\* parallel mode every index 1..total is submitted to the pool
run_prompt ==
    /\ ~halted /\ InBase
    /\ Top.pc = "prompt"
    /\ \E eof \in BOOLEAN :
         IF eof
         THEN /\ SetTop(Frame("cu_guard", "sys_exit", 1))
              /\ UNCHANGED <<i, nextTask,
                   summary>>
         ELSE IF workers = 1
         THEN /\ SetTop(Frame("seq_loop", "none", 0))
              /\ i' = 1
              /\ UNCHANGED nextTask
         ELSE /\ SetTop(Frame("par_wait", "none", 0))
              /\ nextTask' = 1
              /\ UNCHANGED i
    /\ UNCHANGED <<config, shutdown_requested, cleanup_done, active_drivers,
                   quits, env, halted, exit_code, results, store, cur,
                   returned, yielded, run, acct,
                   summary>>

\* the loop over range(1, total)
SeqLoopDone_short(k) == k >= total
\* line 1158: for i in range(1, total + 1)
SeqLoopDone(k) == k > total

\* lines 1158-1162: the sequential loop calls _run_with_retry(i) on the main
\* thread
run_sequential ==
    /\ ~halted /\ InBase
    /\ Top.pc = "seq_loop"
    /\ IF SeqLoopDone(i) \/ shutdown_requested
       THEN /\ SetTop(Frame("post", "none", 0))
            /\ UNCHANGED run
       ELSE /\ SetTop(Frame("seq_run", "none", 0))
            /\ run' = [run EXCEPT ![0] = StartTask(i)]
    /\ UNCHANGED <<config, shutdown_requested, cleanup_done, active_drivers,
                   quits, env, halted, exit_code, orch, acct>>

\* lines 1136-1154: results.append(result); a success goes on to save_account
update_progress(result, next) ==
    /\ results' = Append(results, result)
    /\ cur' = result
    /\ IF result.success
       THEN /\ SetTop(Frame("upd_save", "none", 0))
            /\ UNCHANGED i
       ELSE IF workers = 1
       THEN /\ SetTop(Frame("seq_loop", "none", 0))
            /\ i' = i + 1
       ELSE /\ SetTop(Frame(next, "none", 0))
            /\ UNCHANGED i

\* line 1162-1163: _run_with_retry(i) has returned
run_sequential_result ==
    /\ ~halted /\ InBase
    /\ Top.pc = "seq_run"
    /\ run[0].pc = "idle"
    /\ update_progress(returned[i], "seq_loop")
    /\ UNCHANGED <<config, shutdown_requested, cleanup_done, active_drivers,
                   quits, env, halted, exit_code, store, nextTask,
                   returned, yielded, run, acct,
                   summary>>

\* a loop over the futures in the order of their submission
as_completed_dispatch ==
    {idx \in 1..total : idx \notin yielded /\ \A j \in 1..(idx - 1) : j \in yielded}
\* line 1172: the futures as_completed can yield next: those that are done
\* and were not yielded before
as_completed ==
    {idx \in 1..total : returned[idx] # NoResult /\ idx \notin yielded}

\* lines 1172-1180: as_completed yields a finished future; on shutdown the
\* not yet started futures are cancelled and the loop is left
run_parallel_result ==
    /\ ~halted /\ InBase
    /\ Top.pc = "par_wait"
    /\ \E idx \in as_completed :
         /\ yielded' = yielded \cup {idx}
         /\ IF shutdown_requested
            THEN /\ nextTask' = total + 1
                 /\ SetTop(Frame("pool_join", "none", 0))
                 /\ UNCHANGED <<i, results, cur,
                   summary>>
            ELSE /\ update_progress(returned[idx], "par_wait")
                 /\ UNCHANGED nextTask
    /\ UNCHANGED <<config, shutdown_requested, cleanup_done, active_drivers,
                   quits, env, halted, exit_code, store, returned, run,
                   acct,
                   summary>>

\* lines 1147-1148: save_account for a success with email and password
update_progress_save ==
    /\ ~halted /\ InBase
    /\ Top.pc = "upd_save"
    /\ \E io_ok \in BOOLEAN :
         store' = IF Truthy(cur.email) /\ Truthy(cur.password)
                  THEN save_account(cur.email, cur.password, io_ok)
                  ELSE store
    /\ IF workers = 1
       THEN /\ SetTop(Frame("seq_loop", "none", 0))
            /\ i' = i + 1
       ELSE /\ SetTop(Frame("par_wait", "none", 0))
            /\ UNCHANGED i
    /\ UNCHANGED <<config, shutdown_requested, cleanup_done, active_drivers,
                   quits, env, halted, exit_code, results, cur, nextTask,
                   returned, yielded, run, acct,
                   summary>>

\* line 1166 (the end of the with block): the completion loop is over and the
\* executor waits for its threads
run_pool_exit ==
    /\ ~halted /\ InBase
    /\ \/ Top.pc = "par_wait" /\ yielded = 1..total
       \/ Top.pc = "pool_join"
    /\ nextTask > total
    /\ \A t \in 1..MaxWorkers : run[t].pc = "idle"
    /\ SetTop(Frame("post", "none", 0))
    /\ UNCHANGED <<config, shutdown_requested, cleanup_done, active_drivers,
                   quits, env, halted, exit_code, orch, run, acct>>

\* lines 1201-1202 and 1270-1277: the report
generate_report(rs) ==
    [total |-> Len(rs),
     successful |-> Cardinality(Successful(rs)),
     failed |-> Cardinality(Failed(rs)),
     accounts |-> SelectSeq([k \in DOMAIN rs |->
                     IF rs[k].success /\ Truthy(rs[k].email)
                     THEN <<rs[k].email, rs[k].password>> ELSE <<>>],
                   LAMBDA x : x # <<>>)]

\* main returning 0 whenever any account was attempted
main_exit_code_attempted(report) == IF report.total > 0 THEN 0 ELSE 1
\* line 1365: main's exit code from the report
main_exit_code(report) == IF report.successful > 0 THEN 0 ELSE 1

\* lines 1188-1194 and 1363-1369: after the loops, the shutdown path
\* (cleanup_all, sys.exit(1)) or the report and sys.exit(main()); sys.exit
\* runs the atexit hook, cleanup_all
run_finish ==
    /\ ~halted /\ InBase
    /\ Top.pc = "post"
    /\ IF shutdown_requested
       THEN /\ SetTop(Frame("cu_guard", "sys_exit", 1))
            /\ UNCHANGED summary
       ELSE /\ summary' = generate_report(results)
            /\ SetTop(Frame("cu_guard", "halt",
                             main_exit_code(generate_report(results))))
    /\ UNCHANGED <<config, shutdown_requested, cleanup_done, active_drivers,
                   quits, env, halted, exit_code, i, results, store, cur,
                   nextTask, returned, yielded, run, acct>>

\* ------------------------------------------------------- worker threads

\* thread t can take a step: the main thread runs a workflow only inside the
\* sequential loop and only while no signal handler sits on top of it
CanStep(t) ==
    /\ ~halted
    /\ writing[t] = "none"
    /\ IF t = 0
       THEN InBase /\ Top.pc = "seq_run"
       ELSE workers > 1 /\ t <= workers

DriverOf(t) == <<run[t].idx, run[t].attempt>>
\* the session was quit (by the close pass): every driver call on it raises
Dead(t) == quits[DriverOf(t)] >= 1

\* lines 1166-1170: an idle pool thread takes the next submitted index (the
\* lowest idle thread: pool threads are interchangeable)
pool_take(t) ==
    /\ CanStep(t) /\ t >= 1
    /\ run[t].pc = "idle"
    /\ \A u \in 1..(t - 1) : run[u].pc # "idle"
    /\ nextTask >= 1 /\ nextTask <= total
    /\ run' = [run EXCEPT ![t] = StartTask(nextTask)]
    /\ nextTask' = nextTask + 1
    /\ UNCHANGED <<config, shutdown_requested, cleanup_done, active_drivers,
                   quits, stack, env, halted, exit_code, i, results,
                   store, cur, returned, yielded, acct,
                   summary>>

\* _run_with_retry returns res for the account of thread t
Return(t, res) ==
    /\ returned' = [returned EXCEPT ![run[t].idx] = res]
    /\ run' = [run EXCEPT ![t] = IdleRun]

\* the loop over range(max_retries + 2)
LoopExhausted_extra(attempt) == attempt > max_retries + 1
\* the loop over range(max_retries)
LoopExhausted_short(attempt) == attempt >= max_retries
\* line 1048: the retry loop runs for attempt = 0..max_retries
LoopExhausted(attempt) == attempt > max_retries

\* line 1050: the shutdown check of _run_with_retry
RetryCheck == shutdown_requested

\* history: the first attempt of thread t's account at whose shutdown check
\* the flag was set
FlagAt(t) ==
    IF acct[run[t].idx].flagAt = -1 /\ shutdown_requested
    THEN run[t].attempt ELSE acct[run[t].idx].flagAt

\* lines 1048-1056 and 1067: the head of the retry loop (the result of the
\* previous attempt is dropped when a new attempt starts: line 1062
\* overwrites it before it is read again)
run_with_retry(t) ==
    /\ CanStep(t)
    /\ run[t].pc = "retry_check"
    /\ IF LoopExhausted(run[t].attempt)
       THEN /\ Return(t, run[t].result)
            /\ UNCHANGED acct
       ELSE IF RetryCheck
       THEN /\ Return(t, ShutdownResult(run[t].idx))
            /\ acct' = [acct EXCEPT ![run[t].idx].flagAt = FlagAt(t)]
       ELSE /\ run' = [run EXCEPT ![t].pc = "single", ![t].result = NoResult]
            /\ acct' = [acct EXCEPT ![run[t].idx].last = NoResult,
                                    ![run[t].idx].flagAt = FlagAt(t)]
            /\ UNCHANGED returned
    /\ UNCHANGED <<config, shutdown_requested, cleanup_done, active_drivers,
                   quits, stack, env, halted, exit_code, i, results,
                   store, cur, nextTask, yielded,
                   summary>>

\* _run_single_account without its shutdown check
SingleCheck_never == FALSE
\* line 1027: the shutdown check of _run_single_account
SingleCheck == shutdown_requested

\* line 394: random.choice(pool) yields any entry of the pool (here: any of
\* the first `agents` ones)
random_choice(pool) == {pool[k] : k \in 1..agents}

\* an engine kept from the previous attempt of the account
NewEngine_reused(t) ==
    [run[t] EXCEPT !.pc = "create", !.password = generate_password,
                   !.polls = 0, !.seen = FALSE]
\* lines 1035-1044, 375-401 and 825-827: a new engine with no driver, and
\* the locals of its run: a generated password and no email
NewEngine(t) ==
    [run[t] EXCEPT !.pc = "create", !.password = generate_password,
                   !.email = None, !.driver = FALSE, !.polls = 0,
                   !.seen = FALSE]

\* lines 1024-1044 and 823-829: _run_single_account; without shutdown it
\* builds a new engine and enters engine.run
run_single_account(t) ==
    /\ CanStep(t)
    /\ run[t].pc = "single"
    /\ LET a == run[t].idx
           h == [acct[a] EXCEPT !.invocations = @ + 1,
                                !.invAfterSucc = @ \/ acct[a].succSeen,
                                !.flagAt = FlagAt(t)]
       IN IF SingleCheck
          THEN /\ run' = [run EXCEPT ![t].pc = "run_ret",
                                     ![t].result = ShutdownResult(a)]
               /\ acct' = [acct EXCEPT ![a] = h]
          ELSE /\ run' = [run EXCEPT ![t] = NewEngine(t)]
               /\ \E ua \in random_choice(USER_AGENTS) :
                    acct' = [acct EXCEPT ![a] =
                               [h EXCEPT !.engineRuns = @ + 1,
                                         !.runAfterAbort = @ \/ acct[a].abortSeen,
                                         !.identity = BrowserConfig(ua)]]
    /\ UNCHANGED <<config, shutdown_requested, cleanup_done, active_drivers,
                   quits, stack, env, halted, exit_code, orch>>

\* engine.run without the except block: the exception leaves run
Fail_uncaught(t, e) == run' = [run EXCEPT ![t].pc = "raised"]
\* lines 865-876: the except block builds the failed result
Fail(t, e) ==
    run' = [run EXCEPT ![t].pc = "fin",
                       ![t].result = AccountResult(FALSE, run[t].email,
                                        run[t].password, e, run[t].idx)]

\* line 331: webdriver.Chrome(...) starts the browser or raises
create_driver_start(t) ==
    /\ CanStep(t)
    /\ run[t].pc = "create"
    /\ \E ok \in BOOLEAN :
         IF ok
         THEN /\ quits' = [quits EXCEPT ![DriverOf(t)] = 0]
              /\ run' = [run EXCEPT ![t].pc = "stealth"]
         ELSE /\ Fail(t, DriverError)
              /\ UNCHANGED quits
    /\ UNCHANGED <<config, shutdown_requested, cleanup_done, active_drivers,
                   stack, env, halted, exit_code, orch, acct>>

\* lines 337-345: stealth(...) runs on the started browser, or raises
create_driver_stealth(t) ==
    /\ CanStep(t)
    /\ run[t].pc = "stealth"
    /\ \E ok \in BOOLEAN :
         IF ok
         THEN run' = [run EXCEPT ![t].pc = "register"]
         ELSE Fail(t, DriverError)
    /\ UNCHANGED <<config, shutdown_requested, cleanup_done, active_drivers,
                   quits, stack, env, halted, exit_code, orch, acct>>

\* lines 348-351 and 833: the registration, then engine.driver is set
create_driver_register(t) ==
    /\ CanStep(t)
    /\ run[t].pc = "register"
    /\ active_drivers' = Append(active_drivers, DriverOf(t))
    /\ run' = [run EXCEPT ![t].pc = "step1", ![t].driver = TRUE]
    /\ UNCHANGED <<config, shutdown_requested, cleanup_done, quits, stack,
                   env, halted, exit_code, orch, acct>>

\* _create_temp_email without the "@" test of line 529
create_temp_email_unchecked(m1, m2, m3) ==
    LET e1 == IF HasAt(m1) THEN m1 ELSE None
        e2 == IF ~Truthy(e1) /\ m2 # None THEN m2 ELSE e1
        e3 == IF ~Truthy(e2) /\ m3 # None THEN m3 ELSE e2
    IN e3

\* lines 488-545: the three extraction strategies of _create_temp_email on
\* the values the page yields (None: the strategy raised or matched
\* nothing; the first strategy waits for a value with "@" and raises
\* without one); the result None stands for the raise of line 542
create_temp_email(m1, m2, m3) ==
    LET e1 == IF HasAt(m1) THEN m1 ELSE None
        e2 == IF ~Truthy(e1) /\ m2 # None THEN m2 ELSE e1
        e3 == IF ~Truthy(e2) /\ m3 # None THEN m3 ELSE e2
    IN IF ~Truthy(e3) \/ ~HasAt(e3) THEN None ELSE e3

\* lines 838 and 470-545: state 1, Provision Inbox
step_create_temp_email(t) ==
    /\ CanStep(t)
    /\ run[t].pc = "step1"
    /\ IF Dead(t)
       THEN Fail(t, DriverError)
       ELSE \E m1 \in PageValues(run[t].idx), m2 \in PageValues(run[t].idx),
               m3 \in {None, InboxAddresses[run[t].idx]}, crash \in BOOLEAN :
              LET e == create_temp_email(m1, m2, m3)
              IN IF crash THEN Fail(t, DriverError)
                 ELSE IF e = None THEN Fail(t, EmailError)
                 ELSE run' = [run EXCEPT ![t].pc = "step2", ![t].email = e]
    /\ UNCHANGED <<config, shutdown_requested, cleanup_done, active_drivers,
                   quits, stack, env, halted, exit_code, orch, acct>>

\* a state that on its own error starts the workflow over from state 1
StepOutcome_restart(t, own, nextpc) ==
    IF Dead(t)
    THEN Fail(t, DriverError)
    ELSE \E o \in {"ok", "own", "driver"} :
           IF o = "ok" THEN run' = [run EXCEPT ![t].pc = nextpc]
           ELSE IF o = "own" THEN run' = [run EXCEPT ![t].pc = "step1"]
           ELSE Fail(t, DriverError)

\* the outcome of a state whose driver calls are not caught: it completes,
\* raises its own error, or a driver call raises
StepOutcome(t, own, nextpc) ==
    IF Dead(t)
    THEN Fail(t, DriverError)
    ELSE \E o \in {"ok", "own", "driver"} :
           IF o = "ok" THEN run' = [run EXCEPT ![t].pc = nextpc]
           ELSE IF o = "own" THEN Fail(t, own)
           ELSE Fail(t, DriverError)

\* lines 841 and 547-591: state 2, Submit Signup
step_register_account(t) ==
    /\ CanStep(t)
    /\ run[t].pc = "step2"
    /\ StepOutcome(t, FieldError, "step3")
    /\ UNCHANGED <<config, shutdown_requested, cleanup_done, active_drivers,
                   quits, stack, env, halted, exit_code, orch, acct>>

\* a poll loop that gives up one iteration early
TimedOut_early(polls) == polls >= MaxPolls - 1
\* line 605: the poll loop runs while the email timeout has not elapsed (the
\* timeout lasts MaxPolls iterations)
TimedOut(polls) == polls >= MaxPolls

\* an iteration that takes no time
NextPoll_frozen(polls) == polls
\* lines 612, 615 and 671: the sleeps of an iteration: the time elapsed
\* since line 600 grows with every iteration
NextPoll(polls) == polls + 1

\* a poll loop that does not look at the shutdown flag
LoopCheck_never == FALSE
\* lines 607-608: the shutdown check at the top of every iteration
LoopCheck == shutdown_requested

\* lines 845, 597 and 605-608: state 3, Await Verification Email, the top
\* of the poll loop (the first time with the tab switch of line 597 before
\* it); line 673 once the timeout has elapsed
step_verify_email(t) ==
    /\ CanStep(t)
    /\ run[t].pc = "step3"
    /\ \/ /\ run[t].polls = 0
          /\ Dead(t)
          /\ Fail(t, DriverError)
       \/ IF TimedOut(run[t].polls)
          THEN Fail(t, TimeoutError)
          ELSE IF LoopCheck
          THEN Fail(t, ShutdownError)
          ELSE run' = [run EXCEPT ![t].pc = "poll"]
    /\ UNCHANGED <<config, shutdown_requested, cleanup_done, active_drivers,
                   quits, stack, env, halted, exit_code, orch, acct>>

\* lines 610-624 and 664-671: the refresh, the read of the inbox list and
\* the keyword test; inside the loop driver errors are swallowed, and an
\* iteration without a match sleeps and goes round again
verify_email_poll(t) ==
    /\ CanStep(t)
    /\ run[t].pc = "poll"
    /\ \E match \in BOOLEAN :
         IF match /\ ~Dead(t)
         THEN run' = [run EXCEPT ![t].pc = "matched", ![t].seen = TRUE]
         ELSE run' = [run EXCEPT ![t].pc = "step3", ![t].polls = NextPoll(@)]
    /\ UNCHANGED <<config, shutdown_requested, cleanup_done, active_drivers,
                   quits, stack, env, halted, exit_code, orch, acct>>

\* lines 642-662: the matching message is opened by the click on it or by
\* the fallback click (return True); when both raise, line 662 passes and
\* the loop goes round again
verify_email_open(t) ==
    /\ CanStep(t)
    /\ run[t].pc = "matched"
    /\ \E opened \in BOOLEAN :
         IF opened /\ ~Dead(t)
         THEN run' = [run EXCEPT ![t].pc = "step4"]
         ELSE run' = [run EXCEPT ![t].pc = "step3", ![t].polls = NextPoll(@)]
    /\ UNCHANGED <<config, shutdown_requested, cleanup_done, active_drivers,
                   quits, stack, env, halted, exit_code, orch, acct>>

\* lines 848 and 675-746: state 4, Complete Verification
step_complete_verification(t) ==
    /\ CanStep(t)
    /\ run[t].pc = "step4"
    /\ StepOutcome(t, LinkError, "step5")
    /\ UNCHANGED <<config, shutdown_requested, cleanup_done, active_drivers,
                   quits, stack, env, halted, exit_code, orch, acct>>

\* lines 851-863 and 748-821: state 5, Login & Validate, and the successful
\* result
step_login_and_validate(t) ==
    /\ CanStep(t)
    /\ run[t].pc = "step5"
    /\ IF Dead(t)
       THEN Fail(t, DriverError)
       ELSE \E o \in {"ok", "own", "driver"} :
              IF o = "ok"
              THEN run' = [run EXCEPT ![t].pc = "fin",
                             ![t].result = AccountResult(TRUE, run[t].email,
                                  run[t].password, None, run[t].idx)]
              ELSE IF o = "own" THEN Fail(t, LoginFieldError)
              ELSE Fail(t, DriverError)
    /\ UNCHANGED <<config, shutdown_requested, cleanup_done, active_drivers,
                   quits, stack, env, halted, exit_code, orch, acct>>

\* lines 880-885: the finally block; without a driver nothing is done, else
\* cookies and storage are cleared, and a raise skips to line 891
engine_finally_clear(t) ==
    /\ CanStep(t)
    /\ run[t].pc = "fin"
    /\ IF ~run[t].driver \/ Dead(t)
       THEN run' = [run EXCEPT ![t].pc = "run_ret"]
       ELSE \E ok \in BOOLEAN :
              run' = [run EXCEPT ![t].pc = IF ok THEN "fin_quit" ELSE "run_ret"]
    /\ UNCHANGED <<config, shutdown_requested, cleanup_done, active_drivers,
                   quits, stack, env, halted, exit_code, orch, acct>>

\* line 887: driver.quit(); a raise skips to line 891
engine_finally_quit(t) ==
    /\ CanStep(t)
    /\ run[t].pc = "fin_quit"
    /\ quits' = [quits EXCEPT ![DriverOf(t)] = @ + 1]
    /\ \E ok \in BOOLEAN :
         run' = [run EXCEPT ![t].pc = IF ok THEN "fin_check" ELSE "run_ret"]
    /\ UNCHANGED <<config, shutdown_requested, cleanup_done, active_drivers,
                   stack, env, halted, exit_code, orch, acct>>

\* line 889: if self.driver in _active_drivers
engine_finally_check(t) ==
    /\ CanStep(t)
    /\ run[t].pc = "fin_check"
    /\ run' = [run EXCEPT ![t].pc =
                 IF \E k \in DOMAIN active_drivers : active_drivers[k] = DriverOf(t)
                 THEN "fin_remove" ELSE "run_ret"]
    /\ UNCHANGED <<config, shutdown_requested, cleanup_done, active_drivers,
                   quits, stack, env, halted, exit_code, orch, acct>>

\* list.remove(x): the list without the first occurrence of x
Remove(s, x) ==
    LET F[k \in 0..Len(s)] ==
          IF k = 0 THEN <<>>
          ELSE IF s[k] = x /\ \A j \in 1..(k - 1) : s[j] # x THEN F[k - 1]
          ELSE Append(F[k - 1], s[k])
    IN F[Len(s)]

\* line 890: _active_drivers.remove(self.driver); the ValueError of a driver
\* that is no longer in the list is swallowed by line 891
engine_finally_remove(t) ==
    /\ CanStep(t)
    /\ run[t].pc = "fin_remove"
    /\ active_drivers' = Remove(active_drivers, DriverOf(t))
    /\ run' = [run EXCEPT ![t].pc = "run_ret"]
    /\ UNCHANGED <<config, shutdown_requested, cleanup_done, quits, stack,
                   env, halted, exit_code, orch, acct>>

\* lines 1062-1065: the attempt has returned its result to the retry loop,
\* which returns a success and goes round again after a failure
run_with_retry_result(t) ==
    /\ CanStep(t)
    /\ run[t].pc = "run_ret"
    /\ LET a == run[t].idx
           r == run[t].result
       IN /\ acct' = [acct EXCEPT ![a].last = r,
                                  ![a].succSeen = @ \/ r.success,
                                  ![a].abortSeen = @ \/ (r.error = ShutdownError),
                                  ![a].emailSeen = @ \/ (r.email # None)]
          /\ IF r.success
             THEN Return(t, r)
             ELSE /\ run' = [run EXCEPT ![t].pc = "retry_check",
                                        ![t].attempt = @ + 1,
                                        ![t].driver = FALSE]
                  /\ UNCHANGED returned
    /\ UNCHANGED <<config, shutdown_requested, cleanup_done, active_drivers,
                   quits, stack, env, halted, exit_code, i, results,
                   store, cur, nextTask, yielded,
                   summary>>

\* ------------------------------------------------------- specification

Worker(t) ==
    \/ pool_take(t)
    \/ run_with_retry(t)
    \/ run_single_account(t)
    \/ create_driver_start(t)
    \/ create_driver_stealth(t)
    \/ create_driver_register(t)
    \/ step_create_temp_email(t)
    \/ step_register_account(t)
    \/ step_verify_email(t)
    \/ verify_email_poll(t)
    \/ verify_email_open(t)
    \/ step_complete_verification(t)
    \/ step_login_and_validate(t)
    \/ engine_finally_clear(t)
    \/ engine_finally_quit(t)
    \/ engine_finally_check(t)
    \/ engine_finally_remove(t)
    \/ run_with_retry_result(t)

\* the console writes of a workflow thread: _log (lines 403-422), the two
\* prints of _verify_email (lines 638 and 640) and the retry message of
\* _run_with_retry (line 1059)
LogSites == {"_log", "print_link", "print_error", "logger_retry"}

\* lines 418 and 637: the writes made inside `with _log_lock`
HoldsLogLock(site) == site \in {"_log", "print_link"}

\* lines 154 and 175-185: a write through the logger is made by the emit
\* of the logging.Handler subclass, under that handler's own lock
HoldsHandlerLock(site) == site \in {"_log", "logger_retry"}

\* the writes thread t can begin where it stands: line 829 on entering
\* engine.run, lines 626-640 once the keywords matched, line 1059 before a
\* retry
SitesAt(t) ==
    CASE run[t].pc = "create" -> {"_log"}
      [] run[t].pc = "matched" -> {"_log", "print_link", "print_error"}
      [] run[t].pc = "single" /\ run[t].attempt > 0 -> {"logger_retry"}
      [] OTHER -> {}

\* thread t enters a console write, after acquiring the locks the site
\* takes (it waits while another thread holds one of them)
log_write(t) ==
    /\ CanStep(t)
    /\ \E site \in SitesAt(t) :
         /\ HoldsLogLock(site) =>
               \A u \in Threads : ~HoldsLogLock(writing[u])
         /\ HoldsHandlerLock(site) =>
               \A u \in Threads : ~HoldsHandlerLock(writing[u])
         /\ writing' = [writing EXCEPT ![t] = site]
    /\ UNCHANGED <<total, workers, max_retries, agents, call, no_multi,
                   shutdown_requested, cleanup_done, active_drivers, quits,
                   stack, env, halted, exit_code, orch, run, acct>>

\* the write is done and its locks are released
log_done(t) ==
    /\ ~halted
    /\ writing[t] # "none"
    /\ IF t = 0 THEN InBase ELSE TRUE
    /\ writing' = [writing EXCEPT ![t] = "none"]
    /\ UNCHANGED <<total, workers, max_retries, agents, call, no_multi,
                   shutdown_requested, cleanup_done, active_drivers, quits,
                   stack, env, halted, exit_code, orch, run, acct>>

Console(t) == log_write(t) \/ log_done(t)

Next ==
    \/ signal_handler
    \/ cleanup_all_guard
    \/ cleanup_all_flag
    \/ cleanup_all_quit
    \/ cleanup_all_clear
    \/ run_prompt
    \/ run_sequential
    \/ run_sequential_result
    \/ run_parallel_result
    \/ update_progress_save
    \/ run_pool_exit
    \/ run_finish
    \/ \E t \in Threads : Worker(t)

Spec == Init /\ [][Next]_vars
SpecRetry == InitRetry /\ [][Next]_vars
SpecShutdown == InitShutdown /\ [][Next]_vars
SpecIdentity == InitIdentity /\ [][Next]_vars
SpecMode == InitMode /\ [][Next]_vars

\* the steps of the main thread: the orchestrator and cleanup_all
MainStep ==
    \/ cleanup_all_guard
    \/ cleanup_all_flag
    \/ cleanup_all_quit
    \/ cleanup_all_clear
    \/ run_prompt
    \/ run_sequential
    \/ run_sequential_result
    \/ run_parallel_result
    \/ update_progress_save
    \/ run_pool_exit
    \/ run_finish

\* every thread that can take a step takes one in the end: the waits and
\* sleeps of the code are bounded and the threads are scheduled fairly;
\* nothing is asked of the arrival of signals
Fairness ==
    /\ WF_vars(MainStep)
    /\ \A t \in Threads : WF_vars(Worker(t))

SpecLive == InitLive /\ [][Next]_vars /\ Fairness

\* the workflows together with their console writes
NextLog ==
    \/ Next
    \/ \E t \in Threads : Console(t)

SpecLog == InitLog /\ [][NextLog]_vars

\* ------------------------------------------------ functions on their own

\* a call generate_password(length, use_special_chars) with every length up
\* to MaxLength and both settings of the option
InitPassword ==
    /\ InitProgram({Config(0, 1, 0, 0)})
    /\ \E L \in 0..MaxLength, u \in BOOLEAN :
         call = [fn |-> "generate_password", length |-> L,
                 use_special_chars |-> u, n |-> 0, picked |-> <<>>,
                 out |-> "", done |-> FALSE]

\* line 248: one step of the generator: SystemRandom().choice(chars)
generate_password_choice ==
    /\ call.fn = "generate_password"
    /\ ~call.done
    /\ call.n < call.length
    /\ LET chars == generate_password_chars(call.use_special_chars)
       IN \E k \in 1..Len(chars) :
            call' = [call EXCEPT !.n = @ + 1,
                                 !.picked = Append(@, chars[k]),
                                 !.out = @ \o chars[k]]
    /\ UNCHANGED program

\* line 248: range(length) is exhausted and the joined string is returned
generate_password_return ==
    /\ call.fn = "generate_password"
    /\ ~call.done
    /\ call.n >= call.length
    /\ call' = [call EXCEPT !.done = TRUE]
    /\ UNCHANGED program

NextPassword == generate_password_choice \/ generate_password_return
SpecPassword == InitPassword /\ [][NextPassword]_vars

\* a call of _create_temp_email on an inbox page whose input field holds
\* page[1], whose copy button puts page[2] on the clipboard and whose text
\* has the match page[3] (None: the read raises or matches nothing)
InitInbox ==
    /\ InitProgram({Config(0, 1, 0, 0)})
    /\ \E idx \in Accounts :
         \E m1 \in PageValues(idx), m2 \in PageValues(idx),
            m3 \in {None, InboxAddresses[idx]} :
           call = [fn |-> "create_temp_email", pc |-> "method1",
                   page |-> <<m1, m2, m3>>, email |-> None, tried |-> <<>>,
                   result |-> None, raised |-> FALSE]

\* lines 488-502: the wait for a value with "@" in the input field, then
\* its value, or the except branch
inbox_method1 ==
    /\ call.fn = "create_temp_email"
    /\ call.pc = "method1"
    /\ call' = [call EXCEPT !.pc = "method2", !.tried = Append(@, 1),
                            !.email = IF HasAt(call.page[1])
                                      THEN call.page[1] ELSE None]
    /\ UNCHANGED program

\* lines 504-516: `if not email`: the clipboard text after the copy button
inbox_method2 ==
    /\ call.fn = "create_temp_email"
    /\ call.pc = "method2"
    /\ IF ~Truthy(call.email)
       THEN call' = [call EXCEPT !.pc = "method3", !.tried = Append(@, 2),
                       !.email = IF call.page[2] # None THEN call.page[2]
                                 ELSE @]
       ELSE call' = [call EXCEPT !.pc = "method3"]
    /\ UNCHANGED program

\* lines 518-527: `if not email`: the first email-shaped match in the page
\* text
inbox_method3 ==
    /\ call.fn = "create_temp_email"
    /\ call.pc = "method3"
    /\ IF ~Truthy(call.email)
       THEN call' = [call EXCEPT !.pc = "check", !.tried = Append(@, 3),
                       !.email = IF call.page[3] # None THEN call.page[3]
                                 ELSE @]
       ELSE call' = [call EXCEPT !.pc = "check"]
    /\ UNCHANGED program

\* lines 529-545: the raise when there is no email or no "@" in it, else
\* the return of the email
inbox_check ==
    /\ call.fn = "create_temp_email"
    /\ call.pc = "check"
    /\ IF ~Truthy(call.email) \/ ~HasAt(call.email)
       THEN call' = [call EXCEPT !.pc = "done", !.raised = TRUE]
       ELSE call' = [call EXCEPT !.pc = "done", !.result = call.email]
    /\ UNCHANGED program

NextInbox == inbox_method1 \/ inbox_method2 \/ inbox_method3 \/ inbox_check
SpecInbox == InitInbox /\ [][NextInbox]_vars

\* what a method of _complete_verification can come to on the opened
\* message: it completes the verification, finds nothing to act on, or one
\* of its driver calls raises
MethodOutcomes == {"ok", "nothing", "raise"}
Methods == 1..4

\* a call of _complete_verification on a message where method k comes to
\* page[k], and where the scroll of line 682 works or raises
InitComplete ==
    /\ InitProgram({Config(0, 1, 0, 0)})
    /\ \E scroll \in BOOLEAN, page \in [Methods -> MethodOutcomes] :
         call = [fn |-> "complete_verification", pc |-> "scroll",
                 scroll |-> scroll, page |-> page, tried |-> <<>>,
                 result |-> "none"]

\* lines 681-683: the scroll to the end of the message, outside any try
complete_scroll ==
    /\ call.fn = "complete_verification"
    /\ call.pc = "scroll"
    /\ IF call.scroll
       THEN call' = [call EXCEPT !.pc = "method1"]
       ELSE call' = [call EXCEPT !.pc = "done", !.result = DriverError]
    /\ UNCHANGED program

\* a method whose success does not end the call
try_method_continue(k, nextpc) ==
    /\ call.fn = "complete_verification"
    /\ call.pc = "method" \o ToString(k)
    /\ IF call.page[k] = "ok"
       THEN call' = [call EXCEPT !.pc = nextpc, !.tried = Append(@, k),
                                !.result = "True"]
       ELSE call' = [call EXCEPT !.pc = nextpc, !.tried = Append(@, k)]
    /\ UNCHANGED program

\* one try block of _complete_verification: `return True` on success; the
\* except branch, or a search that found nothing, goes on below the block
try_method(k, nextpc) ==
    /\ call.fn = "complete_verification"
    /\ call.pc = "method" \o ToString(k)
    /\ IF call.page[k] = "ok"
       THEN call' = [call EXCEPT !.pc = "done", !.tried = Append(@, k),
                                !.result = "True"]
       ELSE call' = [call EXCEPT !.pc = nextpc, !.tried = Append(@, k)]
    /\ UNCHANGED program

\* lines 687-704: the click on the verify button and the redirect test
complete_method1 == try_method(1, "method2")
\* lines 707-718: the link matched in the page source
complete_method2 == try_method(2, "method3")
\* lines 721-731: a hyperlink to the verification path of the auth domain
complete_method3 == try_method(3, "method4")
\* lines 734-744: a hyperlink through the email relay's redirect
complete_method4 == try_method(4, "raise")

\* line 746: none of the methods returned
complete_raise ==
    /\ call.fn = "complete_verification"
    /\ call.pc = "raise"
    /\ call' = [call EXCEPT !.pc = "done", !.result = LinkError]
    /\ UNCHANGED program

NextComplete ==
    \/ complete_scroll
    \/ complete_method1
    \/ complete_method2
    \/ complete_method3
    \/ complete_method4
    \/ complete_raise

SpecComplete == InitComplete /\ [][NextComplete]_vars

\* engine.run of one account from Submit Signup on, with _register_account,
\* _login_and_validate and every _safe_click call of theirs step by step
\* (states 3 and 4 in one step)
NoSuchElementError == "Message: no such element"

\* the positions of the five _safe_click calls (lines 566, 569, 590, 767
\* and 788)
ClickSites == {"open_modal", "switch_signup", "submit", "open_login", "login"}

\* the position after each position of the two functions
After ==
    [pc \in {"get_target", "open_modal", "switch_signup", "email_input",
             "password_input", "terms", "submit", "verify", "get_home",
             "open_login", "login_email", "login_password", "login_terms",
             "login"} |->
       CASE pc = "get_target" -> "open_modal"
         [] pc = "open_modal" -> "switch_signup"
         [] pc = "switch_signup" -> "email_input"
         [] pc = "email_input" -> "password_input"
         [] pc = "password_input" -> "terms"
         [] pc = "terms" -> "submit"
         [] pc = "submit" -> "verify"
         [] pc = "verify" -> "get_home"
         [] pc = "get_home" -> "open_login"
         [] pc = "open_login" -> "login_email"
         [] pc = "login_email" -> "login_password"
         [] pc = "login_password" -> "login_terms"
         [] pc = "login_terms" -> "login"
         [] pc = "login" -> "validate"]

\* lines 840-851: the workflow state a position belongs to
FormState(pc) ==
    CASE pc \in {"get_target", "open_modal", "switch_signup", "email_input",
                 "password_input", "terms", "submit"} -> 2
      [] pc = "verify" -> 3
      [] pc \in {"get_home", "open_login", "login_email", "login_password",
                 "login_terms", "login", "validate"} -> 5
      [] OTHER -> 0

\* line 431: the exceptions the first try of _safe_click catches
CaughtByClick == {"timeout", "not_interactable", "intercepted"}
\* what the wait and the native click of lines 434-441 can come to: the
\* click is made, one of the caught exceptions, or another driver error
NativeOutcomes == {"ok", "raise"} \cup CaughtByClick

InitForms ==
    /\ InitProgram({Config(0, 1, 0, 0)})
    /\ call = [fn |-> "forms", pc |-> "get_target",
               email |-> InboxAddresses[1], password |-> generate_password,
               sub |-> "native", native |-> "none", js |-> 0,
               script |-> "none", ret |-> "none",
               clicks |-> <<>>, submitted |-> FALSE, missing |-> "none",
               verdict |-> "none", result |-> NoResult]

\* lines 865-876: an exception leaves the try block of run: the failed
\* result with the email and the password of the run
RunFailed(c, e) ==
    [c EXCEPT !.pc = "fin",
              !.result = AccountResult(FALSE, c.email, c.password, e, 1)]

\* the statement after the current one
Proceed(c) == [c EXCEPT !.pc = After[c.pc]]

\* _safe_click has returned b to its caller
ClickOver(c, b) ==
    [c EXCEPT !.sub = "native", !.ret = b, !.clicks = Append(@, b),
              !.submitted = @ \/ (c.pc = "submit" /\ b = "True")]

\* a caller that raises when _safe_click returned False
Returned_checked(c, b) ==
    IF b = "True" THEN Proceed(ClickOver(c, b))
    ELSE RunFailed(ClickOver(c, b), "click failed")
\* lines 566, 569, 590, 767, 788: the callers drop the value _safe_click
\* returns
Returned(c, b) == Proceed(ClickOver(c, b))

\* lines 553-564 and 755-764: the page is loaded; driver.get is outside any
\* try
forms_get ==
    /\ call.fn = "forms"
    /\ call.pc \in {"get_target", "get_home"}
    /\ \E ok \in BOOLEAN :
         call' = IF ok THEN Proceed(call) ELSE RunFailed(call, DriverError)
    /\ UNCHANGED program

\* lines 433-441: the wait for clickability and the native click
safe_click_native ==
    /\ call.fn = "forms"
    /\ call.pc \in ClickSites
    /\ call.sub = "native"
    /\ \E o \in NativeOutcomes :
         LET c == [call EXCEPT !.native = o, !.js = 0, !.script = "none",
                                !.ret = "none"]
         IN call' = IF o = "ok" THEN Returned(c, "True")
                    ELSE IF o \in CaughtByClick
                    THEN [c EXCEPT !.sub = "fallback"]
                    ELSE RunFailed([c EXCEPT !.ret = "raised"], DriverError)
    /\ UNCHANGED program

\* a fallback whose failure leaves _safe_click as an exception
FallbackFailed_raises(c) == RunFailed([c EXCEPT !.ret = "raised"], DriverError)
\* lines 448-450: the fallback failed: log and return False
FallbackFailed(c) == Returned(c, "False")

\* lines 443-450: the script-driven click
safe_click_fallback ==
    /\ call.fn = "forms"
    /\ call.pc \in ClickSites
    /\ call.sub = "fallback"
    /\ \E ok \in BOOLEAN :
         LET c == [call EXCEPT !.js = @ + 1,
                                !.script = IF ok THEN "ok" ELSE "failed"]
         IN call' = IF ok THEN Returned(c, "True") ELSE FallbackFailed(c)
    /\ UNCHANGED program

\* a form that is filled in although its email field is missing
FieldMissing_ignored(c, field, e) == Proceed([c EXCEPT !.missing = field])
\* lines 573-574, 577, 771-772, 775: a missing field raises
FieldMissing(c, field, e) == RunFailed([c EXCEPT !.missing = field], e)

\* lines 572-575 and 770-773: _wait_for_element returns the email field or
\* None; send_keys and the wait itself may raise other driver errors
forms_email_field ==
    /\ call.fn = "forms"
    /\ call.pc \in {"email_input", "login_email"}
    /\ \E o \in {"found", "missing", "raise"} :
         call' = IF o = "found" THEN Proceed(call)
                 ELSE IF o = "missing"
                 THEN FieldMissing(call, call.pc,
                        IF call.pc = "email_input" THEN FieldError
                        ELSE LoginFieldError)
                 ELSE RunFailed(call, DriverError)
    /\ UNCHANGED program

\* lines 577-578 and 775-776: find_element raises when there is no
\* password field
forms_password_field ==
    /\ call.fn = "forms"
    /\ call.pc \in {"password_input", "login_password"}
    /\ \E o \in {"found", "missing", "raise"} :
         call' = IF o = "found" THEN Proceed(call)
                 ELSE IF o = "missing"
                 THEN FieldMissing(call, call.pc, NoSuchElementError)
                 ELSE RunFailed(call, DriverError)
    /\ UNCHANGED program

\* lines 580-586 and 778-785: the terms checkbox, inside try/except
forms_terms ==
    /\ call.fn = "forms"
    /\ call.pc \in {"terms", "login_terms"}
    /\ call' = Proceed(call)
    /\ UNCHANGED program

\* lines 845-848: states 3 and 4 complete or fail
forms_verify ==
    /\ call.fn = "forms"
    /\ call.pc = "verify"
    /\ \E e \in {None, TimeoutError, LinkError, DriverError} :
         call' = IF e = None THEN Proceed(call) ELSE RunFailed(call, e)
    /\ UNCHANGED program

\* what the page shows after the login was submitted: a success marker in
\* the page source, a URL without "login" and "auth", an error message on
\* the login page, or none of these
Verdicts == {"markers", "url", "error_message", "neither"}

\* a validation that raises unless it has seen a sign of success
validate_strict(v) == IF v \in {"markers", "url"} THEN "True" ELSE "raise"
\* lines 803-821: every branch of the validation check returns True
validate(v) ==
    IF v = "markers" THEN "True"
    ELSE IF v = "url" THEN "True"
    ELSE "True"

\* lines 790-821 and 853-863: the reads of the URL and the page source
\* (outside any try), the validation check, and the successful result
login_validate ==
    /\ call.fn = "forms"
    /\ call.pc = "validate"
    /\ \E ok \in BOOLEAN, v \in Verdicts :
         call' = IF ~ok THEN RunFailed(call, DriverError)
                 ELSE IF validate(v) = "raise"
                 THEN RunFailed([call EXCEPT !.verdict = v], LoginFieldError)
                 ELSE [call EXCEPT !.pc = "fin", !.verdict = v,
                         !.result = AccountResult(TRUE, call.email,
                                       call.password, None, 1)]
    /\ UNCHANGED program

NextForms ==
    \/ forms_get
    \/ safe_click_native
    \/ safe_click_fallback
    \/ forms_email_field
    \/ forms_password_field
    \/ forms_terms
    \/ forms_verify
    \/ login_validate

SpecForms == InitForms /\ [][NextForms]_vars

\* a BrowserManager on a pool thread whose owner calls quit() up to MaxCalls
\* times, before or after create_driver, while signals may arrive
ManagerDriver == <<1, 0>>
ManagerRegistered ==
    \E k \in DOMAIN active_drivers : active_drivers[k] = ManagerDriver

InitQuit ==
    /\ InitProgram({Config(1, 2, 0, s) : s \in 0..MaxSignals})
    /\ call = [fn |-> "quit", pc |-> "idle", driver |-> FALSE,
               opened |-> FALSE, calls |-> 0, closes |-> 0,
               failed |-> FALSE, raised |-> FALSE]

\* lines 331-350: create_driver succeeds: the browser is started, kept in
\* self.driver and registered
manager_create_driver ==
    /\ ~halted
    /\ call.fn = "quit" /\ call.pc = "idle"
    /\ ~call.opened /\ call.calls = 0
    /\ quits' = [quits EXCEPT ![ManagerDriver] = 0]
    /\ active_drivers' = Append(active_drivers, ManagerDriver)
    /\ call' = [call EXCEPT !.driver = TRUE, !.opened = TRUE]
    /\ UNCHANGED <<total, workers, max_retries, agents, no_multi, writing,
                   shutdown_requested, cleanup_done, stack, env, halted,
                   exit_code, orch, run, acct>>

\* line 355: if self.driver; a call on a null driver returns at once
quit_enter ==
    /\ ~halted
    /\ call.fn = "quit" /\ call.pc = "idle"
    /\ ~call.raised /\ call.calls < MaxCalls
    /\ call' = IF call.driver THEN [call EXCEPT !.pc = "try"]
               ELSE [call EXCEPT !.calls = @ + 1]
    /\ UNCHANGED program

\* lines 356-359: self.driver.quit(); its exception is caught and logged
quit_driver ==
    /\ ~halted
    /\ call.fn = "quit" /\ call.pc = "try"
    /\ quits' = [quits EXCEPT ![ManagerDriver] = @ + 1]
    /\ \E ok \in BOOLEAN :
         call' = [call EXCEPT !.pc = "fin_check", !.closes = @ + 1,
                              !.failed = ~ok \/ quits[ManagerDriver] >= 1]
    /\ UNCHANGED <<total, workers, max_retries, agents, no_multi, writing,
                   shutdown_requested, cleanup_done, active_drivers, stack,
                   env, halted, exit_code, orch, run, acct>>

\* line 362: if self.driver in _active_drivers
quit_check ==
    /\ ~halted
    /\ call.fn = "quit" /\ call.pc = "fin_check"
    /\ call' = [call EXCEPT !.pc = IF ManagerRegistered THEN "fin_remove"
                                   ELSE "fin_clear"]
    /\ UNCHANGED program

\* line 363: _active_drivers.remove(self.driver); the ValueError of a driver
\* that has left the list since line 362 leaves quit, line 364 is skipped
quit_remove ==
    /\ ~halted
    /\ call.fn = "quit" /\ call.pc = "fin_remove"
    /\ IF ManagerRegistered
       THEN /\ active_drivers' = Remove(active_drivers, ManagerDriver)
            /\ call' = [call EXCEPT !.pc = "fin_clear"]
       ELSE /\ call' = [call EXCEPT !.pc = "idle", !.raised = TRUE,
                                    !.calls = @ + 1]
            /\ UNCHANGED active_drivers
    /\ UNCHANGED <<total, workers, max_retries, agents, no_multi, writing,
                   shutdown_requested, cleanup_done, quits, stack, env,
                   halted, exit_code, orch, run, acct>>

\* quit leaving self.driver set
quit_clear_kept ==
    /\ ~halted
    /\ call.fn = "quit" /\ call.pc = "fin_clear"
    /\ call' = [call EXCEPT !.pc = "idle", !.calls = @ + 1]
    /\ UNCHANGED program
\* line 364: self.driver = None, and quit returns
quit_clear ==
    /\ ~halted
    /\ call.fn = "quit" /\ call.pc = "fin_clear"
    /\ call' = [call EXCEPT !.pc = "idle", !.driver = FALSE,
                            !.calls = @ + 1]
    /\ UNCHANGED program

NextQuit ==
    \/ manager_create_driver
    \/ quit_enter
    \/ quit_driver
    \/ quit_check
    \/ quit_remove
    \/ quit_clear
    \/ signal_handler
    \/ cleanup_all_guard
    \/ cleanup_all_flag
    \/ cleanup_all_quit
    \/ cleanup_all_clear
SpecQuit == InitQuit /\ [][NextQuit]_vars

\* ------------------------------------------------------------ properties

InRegistry(d) == \E k \in DOMAIN active_drivers : active_drivers[k] = d

\* C1: when run has produced its report (no shutdown), the result list holds
\* exactly one AccountResult for every account index 1..total, in
\* sequential and in parallel mode.
C1_OneResultPerIndex ==
    summary # NoSummary =>
      /\ Len(results) = total
      /\ \A a \in 1..total :
           Cardinality({k \in DOMAIN results : results[k].account_index = a}) = 1

\* two pool threads, two accounts, the second account recorded first
C1_Witness ==
    /\ summary # NoSummary
    /\ workers = 2 /\ total = 2
    /\ Len(results) = 2
    /\ results[1].account_index = 2

\* C2: after a run (here: one that ended with its report), the Store holds
\* exactly one email:password line for each result recorded as successful,
\* and no other line.
C2_StoreMatchesResults ==
    summary # NoSummary =>
      /\ Len(store) = Cardinality(Successful(results))
      /\ \A k \in Successful(results) :
           \E j \in DOMAIN store :
             store[j] = StoreLine(results[k].email, results[k].password)
      /\ \A j \in DOMAIN store :
           \E k \in Successful(results) :
             store[j] = StoreLine(results[k].email, results[k].password)

\* every AccountResult that exists anywhere: built by engine.run or
\* _run_single_account, returned by _run_with_retry, recorded by run
Produced ==
    ({results[k] : k \in DOMAIN results}
       \cup {returned[a] : a \in Accounts}
       \cup {run[t].result : t \in Threads}
       \cup {acct[a].last : a \in Accounts}
       \cup {cur}) \ {NoResult}

\* C3: a successful AccountResult has a non-empty email and password, a
\* failed one a non-empty error.
C3_ResultsWellFormed ==
    \A r \in Produced :
      /\ r.success => Truthy(r.email) /\ Truthy(r.password)
      /\ ~r.success => Truthy(r.error)

\* a failed attempt of state 1 retried into a success
C3_Witness ==
    \E a \in Accounts :
      /\ returned[a].success
      /\ acct[a].invocations >= 2

\* C4: _run_with_retry calls the workflow at most max_retries + 1 times per
\* account, and never again after a call that returned success.
C4_AtMostBudgetPlusOne ==
    \A a \in Accounts :
      /\ acct[a].invocations <= max_retries + 1
      /\ ~acct[a].invAfterSucc

\* the whole budget is used and the last call succeeds
C4_Witness ==
    \E a \in Accounts :
      /\ max_retries >= 1
      /\ acct[a].invocations = max_retries + 1
      /\ acct[a].succSeen
      /\ returned[a].success

\* C5: once _run_with_retry has returned: after a successful attempt it
\* returned that attempt's result; without shutdown and without a success
\* it made exactly max_retries + 1 calls and returned the result of the
\* last one.
C5_ReturnsLastOrSuccess ==
    \A a \in Accounts :
      returned[a] # NoResult =>
        /\ acct[a].succSeen =>
             returned[a].success /\ returned[a] = acct[a].last
        /\ (~shutdown_requested /\ ~acct[a].succSeen) =>
             /\ acct[a].invocations = max_retries + 1
             /\ returned[a] = acct[a].last

\* every attempt failed, with at least one retry and no shutdown
C5_Witness ==
    \E a \in Accounts :
      /\ returned[a] # NoResult
      /\ ~shutdown_requested
      /\ ~acct[a].succSeen
      /\ acct[a].invocations >= 2

\* C6 as stated: no browser is started once the shutdown flag is set.
C6_NoSessionAfterFlag ==
    [][\A d \in Drivers :
         (quits[d] = -1 /\ quits'[d] = 0) => ~shutdown_requested]_vars

\* C6 as amended: if the flag is set when a shutdown check of an attempt
\* runs (line 1050 or line 1027), no browser is started for that attempt or
\* a later one of the account, and _run_with_retry returns the shutdown
\* result.
C6_NoSessionAfterCheck ==
    \A a \in Accounts :
      acct[a].flagAt # -1 =>
        /\ \A d \in Drivers :
             (d[1] = a /\ d[2] >= acct[a].flagAt) => quits[d] = -1
        /\ returned[a] # NoResult => returned[a] = ShutdownResult(a)

\* the first attempt opened a browser and failed, the flag was set before
\* the check of the second one
C6_Witness ==
    \E a \in Accounts :
      /\ acct[a].flagAt = 1
      /\ quits[<<a, 0>>] >= 0
      /\ quits[<<a, 1>>] = -1
      /\ returned[a] = ShutdownResult(a)

\* C7: after an attempt that ended with the shutdown error the engine is
\* not run again for that account, and _run_with_retry returns a failed
\* result with the shutdown error.
C7_AbortNotRetried ==
    \A a \in Accounts :
      /\ ~acct[a].runAfterAbort
      /\ (acct[a].abortSeen /\ returned[a] # NoResult) =>
           ~returned[a].success /\ returned[a].error = ShutdownError

\* the poll loop of an attempt aborted on the flag while retries remained
C7_Witness ==
    \E a \in Accounts :
      /\ acct[a].abortSeen
      /\ acct[a].last.email # None
      /\ acct[a].invocations <= max_retries
      /\ returned[a] # NoResult

\* C8: when engine.run returns, the session it opened has been quit exactly
\* once and is not in the registry.
C8_SessionReleasedOnce ==
    \A t \in Threads :
      (run[t].pc = "run_ret" /\ run[t].driver) =>
        /\ quits[DriverOf(t)] = 1
        /\ ~InRegistry(DriverOf(t))

\* C9: every started browser that has not been quit is in the registry.
C9_StartedIsRegistered ==
    \A d \in Drivers : quits[d] = 0 => InRegistry(d)

\* C10: when the signal handler has ended the process, quit has been
\* called on every session that was registered when a signal arrived.
C10_HaltAfterClosingAll ==
    (halted /\ stack[1].after = "os_exit") =>
      \A d \in liveAtSignal : quits[d] >= 1

\* C11: the close pass of cleanup_all is begun at most once in a process
\* lifetime, whichever of its callers (signal handler, abort path, atexit
\* hook) reach it and however they interleave.
C11_AtMostOnePass == passes <= 1

\* a later caller stands at the guard after the pass has been begun
C11_Witness == passes = 1 /\ Top.pc = "cu_guard"

\* C12: the shutdown flag starts false, becomes true only in a step of the
\* signal handler, and once true stays true.
C12_FlagMonotonic ==
    /\ ~shutdown_requested
    /\ [][/\ shutdown_requested => shutdown_requested'
          /\ (~shutdown_requested /\ shutdown_requested') =>
                /\ signals' = signals - 1
                /\ Len(stack') = Len(stack) + 1
                /\ stack'[Len(stack')].after = "os_exit"]_vars

\* a second signal is handled on top of the first, the flag still set
C12_Witness == shutdown_requested /\ Len(stack) >= 3

\* C13: when the process has terminated after a shutdown request, every
\* account whose _run_with_retry returned a success is in the result list
\* and its credential pair is in the Store.
C13_CompletedIsFlushed ==
    (halted /\ shutdown_requested) =>
      \A a \in Accounts :
        returned[a].success =>
          /\ \E k \in DOMAIN results : results[k] = returned[a]
          /\ \E j \in DOMAIN store :
               store[j] = StoreLine(returned[a].email, returned[a].password)

\* C14: the process exits with 0 exactly when run produced its report
\* without a shutdown request and some recorded account succeeded; in every
\* other case, every forced shutdown included, it exits with 1.
C14_ExitCode ==
    halted =>
      /\ exit_code \in {0, 1}
      /\ exit_code = 0 <=>
           /\ ~shutdown_requested
           /\ summary # NoSummary
           /\ \E k \in DOMAIN results : results[k].success

\* a forced shutdown after an account had succeeded and was recorded
C14_Witness ==
    /\ halted /\ exit_code = 1 /\ shutdown_requested
    /\ \E k \in DOMAIN results : results[k].success

\* lines 838-851: the number of the workflow state a position of engine.run
\* lies in (0: outside the five states)
StateNo(pc) ==
    CASE pc = "step1" -> 1
      [] pc = "step2" -> 2
      [] pc \in {"step3", "poll", "matched"} -> 3
      [] pc = "step4" -> 4
      [] pc = "step5" -> 5
      [] OTHER -> 0

\* C15: a workflow state is entered only from its predecessor (state 1 from
\* the session start), so none is skipped or re-entered; the run leaves the
\* states with a result that is a success or a failure, and a success only
\* from state 5.
C15_ForwardOrder ==
    [][\A t \in Threads :
         LET p == run[t].pc
             q == run'[t].pc
         IN /\ (StateNo(q) > 0 /\ StateNo(q) # StateNo(p)) =>
                 /\ StateNo(p) = StateNo(q) - 1
                 /\ StateNo(q) = 1 => p = "register"
            /\ (StateNo(p) > 0 /\ StateNo(q) = 0 /\ q # "dead") =>
                 /\ q = "fin"
                 /\ run'[t].result # NoResult
                 /\ run'[t].result.success \in BOOLEAN
                 /\ run'[t].result.success => p = "step5"]_vars

\* a run that went through the five states and succeeded
C15_Witness == \E t \in Threads : run[t].pc = "fin" /\ run[t].result.success

\* C16: no exception leaves engine.run: no activation ends raising, and
\* one that has returned has returned an AccountResult of its account, a
\* failed one with an error text when a step or a browser call failed.
C16_RunNeverRaises ==
    \A t \in Threads :
      /\ run[t].pc # "raised"
      /\ run[t].pc = "run_ret" =>
           /\ run[t].result # NoResult
           /\ run[t].result.account_index = run[t].idx
           /\ ~run[t].result.success => Truthy(run[t].result.error)

\* a browser call failed on a session the close pass had torn down, and
\* run returned the failure
C16_Witness ==
    \E t \in Threads :
      /\ run[t].pc = "run_ret"
      /\ shutdown_requested
      /\ run[t].driver /\ Dead(t)
      /\ run[t].result.error = DriverError

\* the browser sessions that were started and not yet quit
OpenSessions == {d \in Drivers : quits[d] = 0}

\* C17: at most `workers` browser sessions are open at any moment, at most
\* one of them belongs to the account a worker is processing, and no two
\* workers use the same session.
C17_OpenSessionsBounded ==
    /\ Cardinality(OpenSessions) <= workers
    /\ \A a \in Accounts : Cardinality({d \in OpenSessions : d[1] = a}) <= 1
    /\ \A t1, t2 \in Threads :
         (t1 # t2 /\ run[t1].driver /\ run[t2].driver) =>
           DriverOf(t1) # DriverOf(t2)

\* C18: an attempt starts on a new engine: until its own state 1 has
\* provisioned an inbox it has no email, until its own create_driver has
\* returned it has no driver, the browser it starts was never started
\* before, and the result it returns carries its own email and password.
C18_FreshAttempt ==
    \A t \in Threads :
      /\ run[t].pc \in {"create", "stealth", "register", "step1"} =>
           run[t].email = None
      /\ run[t].pc \in {"create", "stealth", "register"} => ~run[t].driver
      /\ run[t].pc = "create" => quits[DriverOf(t)] = -1
      /\ run[t].pc = "fin" =>
           /\ run[t].result.email = run[t].email
           /\ run[t].result.password = run[t].password

\* a retry stands before its state 1 after an earlier attempt of the
\* account had provisioned an email and opened a browser
C18_Witness ==
    \E t \in Threads :
      /\ run[t].pc = "step1"
      /\ run[t].attempt >= 1
      /\ acct[run[t].idx].emailSeen
      /\ quits[<<run[t].idx, run[t].attempt - 1>>] >= 0

\* C19: the identities (user agent, viewport, locale) of the engines of two
\* distinct accounts of one run differ.
C19_IdentityNotReused ==
    \A a, b \in Accounts :
      (a # b /\ acct[a].identity # NoIdentity /\ acct[b].identity # NoIdentity)
        => acct[a].identity # acct[b].identity

\* C20: the report of a completed run is consistent: total is the number of
\* recorded results and the number of accounts asked for, successful and
\* failed add up to total, the accounts list has `successful` pairs, and
\* the Store has grown by `successful` lines.
C20_SummaryConsistent ==
    summary # NoSummary =>
      /\ summary.total = Len(results)
      /\ summary.total = total
      /\ summary.successful + summary.failed = summary.total
      /\ Len(summary.accounts) = summary.successful
      /\ Len(store) = summary.successful

\* C21: generate_password(L, option) returns exactly L characters, each a
\* letter, a digit or, with the option on, one of !@#$%^&*; with the option
\* off none of these symbols occurs; the workflow's password has the
\* default length 12.
C21_PasswordShape ==
    /\ Len(generate_password) = 12
    /\ DefaultLength = 12
    /\ (call.fn = "generate_password" /\ call.done) =>
         /\ Len(call.out) = call.length
         /\ Len(call.picked) = call.length
         /\ \A k \in DOMAIN call.picked :
              LET c == call.picked[k]
              IN /\ Len(c) = 1
                 /\ \/ \E j \in DOMAIN ascii_letters : ascii_letters[j] = c
                    \/ \E j \in DOMAIN digits : digits[j] = c
                    \/ /\ call.use_special_chars
                       /\ c \in {"!", "@", "#", "$", "%", "^", "&", "*"}

\* a returned password of two characters, one of them a symbol
C21_Witness ==
    /\ call.fn = "generate_password" /\ call.done
    /\ call.length = 2
    /\ \E k \in DOMAIN call.picked : call.picked[k] = "&"

\* the threads with an account workflow in flight
InFlight == {t \in Threads : run[t].pc \notin {"idle", "dead"}}

\* C22: with one worker, or with parallelism disabled by --no-multi, the
\* run is sequential: at most one workflow is in flight, results are
\* recorded in index order and the workflow in flight is that of the next
\* index; otherwise at most `workers` workflows are in flight.
C22_ModeByConfiguration ==
    IF workers = 1 \/ no_multi
    THEN /\ Cardinality(InFlight) <= 1
         /\ \A k \in DOMAIN results : results[k].account_index = k
         /\ \A t \in InFlight : run[t].idx = Len(results) + 1
    ELSE Cardinality(InFlight) <= workers

C24_FailedOpenLeavesNothing ==
    \A t \in Threads :
      (run[t].pc = "run_ret" /\ ~run[t].driver
         /\ run[t].result.error = DriverError) =>
        /\ ~run[t].result.success
        /\ quits[DriverOf(t)] <= 1
        /\ quits[DriverOf(t)] = 0 => InRegistry(DriverOf(t))

\* C25: every console write of a workflow thread is made while holding the
\* log lock, and no two threads are inside a console write at once.
C25_WritesUnderLogLock ==
    ~halted =>
      /\ \A t \in Threads :
           writing[t] # "none" => HoldsLogLock(writing[t])
      /\ Cardinality({t \in Threads : writing[t] # "none"}) <= 1

\* strategy k was attempted by the call
Tried(k) == \E j \in DOMAIN call.tried : call.tried[j] = k

\* C26: the strategies are tried in the order input field, clipboard, page
\* text; the clipboard is tried whenever the input field yielded no value
\* with "@", and the page text whenever neither earlier one did; the call
\* raises only after all three were tried without a value with "@", and a
\* returned email contains "@".
C26_StrategiesUntilAt ==
    call.fn = "create_temp_email" =>
      /\ \A j, k \in DOMAIN call.tried : j < k => call.tried[j] < call.tried[k]
      /\ call.pc \in {"method3", "check", "done"} =>
           (~HasAt(call.page[1]) => Tried(2))
      /\ call.pc \in {"check", "done"} =>
           (~HasAt(call.page[1]) /\ ~HasAt(call.page[2]) => Tried(3))
      /\ call.raised =>
           /\ Tried(1) /\ Tried(2) /\ Tried(3)
           /\ \A k \in 1..3 : ~HasAt(call.page[k])
      /\ (call.pc = "done" /\ ~call.raised) => HasAt(call.result)

\* C27: once a poll has observed a message matching the keywords, with no
\* shutdown requested, the workflow goes on to Complete Verification: it
\* leaves the matched message only for state 4, and an attempt that has
\* seen such a message never fails with the timeout error.
C27_MatchAdvances ==
    [][\A t \in Threads :
         /\ (/\ run[t].pc = "matched"
             /\ ~shutdown_requested
             /\ run'[t].pc \notin {"matched", "dead"})
              => run'[t].pc = "step4"
         /\ (run'[t].pc = "fin" /\ run'[t].result.error = TimeoutError)
              => ~run'[t].seen]_vars

\* the time the attempt has spent in the poll loop, in iterations (the
\* duration of lines 866 and 871 is at least that)
Duration(t) == run[t].polls

\* C28: an attempt that leaves the poll loop without having observed the
\* keywords and without a shutdown request is failed with the timeout
\* error; the timeout error is raised only after the timeout has elapsed,
\* and the failed attempt has lasted at least that long.
C28_TimeoutAfterT ==
    [][\A t \in Threads :
         /\ (/\ run[t].pc \in {"step3", "poll", "matched"}
             /\ run'[t].pc \notin {"step3", "poll", "matched", "dead"}
             /\ ~run'[t].seen
             /\ ~shutdown_requested)
              => /\ run'[t].pc = "fin"
                 /\ ~run'[t].result.success
                 /\ run'[t].result.error = TimeoutError
         /\ (/\ run[t].pc = "step3"
             /\ run'[t].pc = "fin"
             /\ run'[t].result.error = TimeoutError)
              => /\ TimedOut(run[t].polls)
                 /\ run[t].polls >= MaxPolls
                 /\ Duration(t)' >= MaxPolls]_vars

\* an attempt failed by the timeout with no keywords seen and no shutdown
C28_Witness ==
    \E t \in Threads :
      /\ run[t].pc = "fin"
      /\ run[t].result.error = TimeoutError
      /\ ~run[t].seen
      /\ ~shutdown_requested
      /\ Duration(t) >= MaxPolls

\* C29: an iteration of the poll loop that begins with the shutdown flag
\* set performs no refresh and no inbox check: the workflow leaves the top
\* of the loop for the failure, and, the timeout not having elapsed, with
\* the shutdown error.
C29_AbortAtNextIteration ==
    [][\A t \in Threads :
         (/\ run[t].pc = "step3"
          /\ shutdown_requested
          /\ run'[t] # run[t]
          /\ run'[t].pc # "dead")
           => /\ run'[t].pc = "fin"
              /\ run'[t].polls = run[t].polls
              /\ (~TimedOut(run[t].polls) /\ (run[t].polls > 0 \/ ~Dead(t)))
                   => run'[t].result.error = ShutdownError]_vars

\* a workflow that has polled, found the flag set at the top of the next
\* iteration and failed with the shutdown error
C29_Witness ==
    \E t \in Threads :
      /\ run[t].pc = "fin"
      /\ run[t].result.error = ShutdownError
      /\ run[t].polls >= 1

\* C30: the methods are tried in the order 1, 2, 3, 4; a method that
\* succeeds ends the call with True and none is tried after it; a method
\* that raised or found nothing is followed by the next one; and the call
\* fails only when none of the four has succeeded, with the link error
\* only after all four were tried.
C30_MethodsInOrder ==
    call.fn = "complete_verification" =>
      LET n == Len(call.tried)
      IN /\ \A j \in 1..n : call.tried[j] = j
         /\ \A j \in 1..(n - 1) : call.page[j] # "ok"
         /\ (n \in 1..4 /\ call.page[n] = "ok") =>
               call.pc = "done" /\ call.result = "True"
         /\ (n \in 1..3 /\ call.page[n] # "ok") =>
               call.pc = "method" \o ToString(n + 1)
         /\ call.result = "True" => n >= 1 /\ call.page[n] = "ok"
         /\ call.result \in {LinkError, DriverError} =>
               \A j \in 1..n : call.page[j] # "ok"
         /\ call.result = LinkError =>
               n = 4 /\ \A j \in Methods : call.page[j] # "ok"

\* the button click raised, the page source had no link, and the third
\* method completed the verification: the fourth was not tried
C30_Witness ==
    /\ call.fn = "complete_verification"
    /\ call.pc = "done"
    /\ call.result = "True"
    /\ call.tried = <<1, 2, 3>>
    /\ call.page[1] = "raise"
    /\ call.page[2] = "nothing"

\* C31: once the login was submitted and the page could be read, every
\* outcome of the validation check ends the run with the successful
\* result: the check itself never fails the state.
C31_ValidationAlwaysSucceeds ==
    (call.fn = "forms" /\ call.verdict # "none") =>
      /\ call.pc = "fin"
      /\ call.result.success
      /\ call.result.error = None
      /\ call.result.email = call.email
      /\ Len(call.clicks) = 5

\* a login after which the page showed an error message, reported as a
\* success
C31_Witness ==
    /\ call.fn = "forms"
    /\ call.verdict = "error_message"
    /\ call.result.success

\* C32: when the email field or the password field of the signup form is
\* missing, the run is failed before the submit click is attempted (only
\* the two clicks before the form were made), its result carries the
\* provisioned email, and no later state is entered.
C32_MissingFieldFails ==
    (call.fn = "forms" /\ call.missing \in {"email_input", "password_input"}) =>
      /\ call.pc = "fin"
      /\ ~call.result.success
      /\ call.result.error \in {FieldError, NoSuchElementError}
      /\ call.missing = "email_input" <=> call.result.error = FieldError
      /\ ~call.submitted
      /\ Len(call.clicks) = 2
      /\ call.result.email = call.email /\ HasAt(call.result.email)
      /\ call.verdict = "none"

\* the signup form without its password field
C32_Witness ==
    /\ call.fn = "forms"
    /\ call.missing = "password_input"
    /\ call.pc = "fin"
    /\ call.result.email = InboxAddresses[1]

\* C33: in every _safe_click call the script-driven click is attempted at
\* most once, exactly once after a caught failure of the native click and
\* never after a native click that was made; the call returns True iff
\* one of the two clicks was made, and False, without raising, when the
\* script-driven click failed too.
C33_SafeClick ==
    call.fn = "forms" =>
      /\ call.js <= 1
      /\ call.native = "ok" => call.js = 0 /\ call.ret = "True"
      /\ call.js = 1 <=> call.script # "none"
      /\ (call.native \in CaughtByClick /\ call.sub = "native") => call.js = 1
      /\ call.js = 1 => call.native \in CaughtByClick
      /\ call.ret = "True" <=> (call.native = "ok" \/ call.script = "ok")
      /\ call.script = "failed" => call.ret = "False"
      /\ call.ret = "False" => call.script = "failed"
      /\ call.ret = "raised" => call.native = "raise"

\* a call whose native click was intercepted and whose script-driven click
\* failed: it returned False
C33_Witness ==
    /\ call.fn = "forms"
    /\ call.native = "intercepted"
    /\ call.js = 1
    /\ call.ret = "False"

\* C37: a _safe_click that returned False is followed by the next
\* statement of its caller, and states 2 and 5 fail only by a missing
\* field or a raised driver error.
C37_FailedClickProceeds ==
    [][call.fn = "forms" =>
         /\ (call.pc \in ClickSites /\ call'.ret = "False") =>
               call'.pc = After[call.pc]
         /\ (FormState(call.pc) \in {2, 5} /\ call'.pc = "fin"
               /\ ~call'.result.success) =>
               \/ /\ call'.missing # "none"
                  /\ call'.result.error \in
                       {FieldError, LoginFieldError, NoSuchElementError}
               \/ call'.result.error = DriverError]_vars

\* a run that succeeded although each of its five clicks returned False
C37_Witness ==
    /\ call.fn = "forms"
    /\ call.pc = "fin"
    /\ call.result.success
    /\ call.clicks = <<"False", "False", "False", "False", "False">>

\* C34: whatever the interleaving of registrations, removals and the close
\* pass, a session leaves the registry only after quit was called on it,
\* and no error of a removal leaves engine.run.
C34_RegistryNeverLoses ==
    [][/\ \A d \in Drivers :
            (InRegistry(d) /\ ~InRegistry(d)') => quits'[d] >= 1
       /\ \A t \in Threads : run'[t].pc # "raised"]_vars

\* C35: the result list and the Store change only in steps of the
\* orchestrator's thread inside its loops, one append at a time and never
\* both at once, while no pool thread moves; an appended result is the one
\* a finished _run_with_retry returned, so that in parallel mode the list
\* is in the order of completion.
C35_OrchestratorOnlyAppends ==
    [][(results' # results \/ store' # store) =>
         /\ InBase /\ Top.pc \in {"seq_run", "par_wait", "upd_save"}
         /\ \A t \in 1..MaxWorkers : run'[t] = run[t]
         /\ ~(results' # results /\ store' # store)
         /\ results' # results =>
              \E a \in 1..total :
                /\ returned[a] # NoResult
                /\ results' = Append(results, returned[a])
                /\ workers > 1 => a \notin yielded /\ a \in yielded'
         /\ store' # store =>
              /\ Len(store') = Len(store) + 1
              /\ SubSeq(store', 1, Len(store)) = store
              /\ cur.success]_vars

\* two pool workers: the second account finished first, and the list and
\* the Store hold it first
C35_Witness ==
    /\ workers > 1
    /\ Len(results) = 2
    /\ results[1].account_index = 2
    /\ results[2].account_index = 1
    /\ Len(store) = 2

\* a _run_with_retry invocation for account a is in progress
Invoked(a) ==
    \E t \in Threads : run[t].idx = a /\ run[t].pc \notin {"idle", "dead"}

\* C36 as stated: every _run_with_retry invocation returns in the end,
\* run ends by returning its report or by the end of the process, and a
\* shutdown request in parallel mode leads to the exit of the process.
C36_EveryInvocationReturns ==
    /\ \A a \in Accounts : Invoked(a) ~> (returned[a] # NoResult)
    /\ <>(summary # NoSummary \/ halted)
    /\ (shutdown_requested /\ workers > 1) ~> halted

\* C36 as amended: every _run_with_retry invocation returns in the end
\* unless the process is ended first (os._exit in the signal handler
\* ends it with the invocation in progress); run ends by returning its
\* report or by the end of the process, and a shutdown request in parallel
\* mode leads to the exit of the process.
C36_ReturnsOrProcessEnds ==
    /\ \A a \in Accounts : Invoked(a) ~> (returned[a] # NoResult \/ halted)
    /\ <>(summary # NoSummary \/ halted)
    /\ (shutdown_requested /\ workers > 1) ~> halted

\* the process has ended after a shutdown request in parallel mode, the
\* invocation of the account having returned before
C36_Witness ==
    /\ halted /\ shutdown_requested /\ workers > 1
    /\ returned[1] # NoResult
    /\ acct[1].invocations >= 1

====
